---- MODULE Spec2Model ----
(***************************************************************************)
(* Model of the Ilitek ILI9488 MIPI-DSI panel driver                       *)
(* (src/panel-ilitek-ili9488.c).                                           *)
(*                                                                         *)
(* Every driver entry point (probe, remove, prepare, unprepare, get_modes, *)
(* get_orientation) is one action.  The calls an entry point makes on the  *)
(* regulator, the reset GPIO, the DSI bus, the timers and the DRM panel    *)
(* registry are recorded, in program order, in `trace`; the results those  *)
(* external calls return are the action's inputs.                          *)
(*                                                                         *)
(* The driver keeps no lifecycle field of its own: `state` is the logical  *)
(* Unprepared/Prepared state of the panel as its caller sees it from the   *)
(* values prepare and unprepare return, and the caller alternates the two. *)
(*                                                                         *)
(* The mipi_dsi_*_multi helpers and mipi_dsi_msleep follow the contract of *)
(* struct mipi_dsi_multi_context (drm/drm_mipi_dsi.h): accum_err starts at *)
(* 0, a failing call stores its error there, and a call made while         *)
(* accum_err is non-zero is a no-op.                                       *)
(***************************************************************************)
EXTENDS Integers, Sequences, FiniteSets, TLC

VARIABLES
    pc,          \* "unbound" | "bound" | "probe_failed" | "removed"
    registered,  \* the panel is in the DRM panel registry (drm_panel_add)
    attached,    \* the device is attached to its DSI host
    desc,        \* ili->desc: the matched descriptor ("none" before probe)
    orientation, \* ili->orientation
    reset,       \* logical value of the reset GPIO (-1: line not acquired)
    regCount,    \* enable count this consumer holds on the power regulator
    state,       \* "Unprepared" | "Prepared"
    lastOp,      \* the entry point that ran last
    lastRet,     \* the value it returned
    modeOut,     \* the mode it handed to the connector (get_modes only)
    trace,       \* the external calls it made, in order
    preReset,    \* reset as it was when that entry point was entered
    preReg,      \* regCount as it was when that entry point was entered
    calls,       \* number of prepare/unprepare calls so far
    nPowerOnOk,  \* number of ili9488_power_on calls that returned 0
    nPowerOff,   \* number of ili9488_power_off calls
    nDisableFail \* number of regulator_disable calls that failed

vars == <<pc, registered, attached, desc, orientation, reset, regCount, state,
          lastOp, lastRet, modeOut, trace, preReset, preReg, calls,
          nPowerOnOk, nPowerOff, nDisableFail>>

(* Bound: how many prepare/unprepare calls one run makes. *)
MaxCalls == 3

(* Error codes the external calls may return (-EIO, -ETIMEDOUT). *)
Errs == {-5, -110}
Rets == {0} \cup Errs

(* enum drm_panel_orientation values the device tree may resolve to. *)
Orientations == {-1, 1}

(***************************************************************************)
(* Recorded external calls.                                                *)
(***************************************************************************)
Ev(op, a, b, d) == [op |-> op, a |-> a, b |-> b, d |-> d]

Emit(m, op, a, b, d) == [m EXCEPT !.trace = Append(@, Ev(op, a, b, d))]

Hw(rst, reg) == [reset |-> rst, reg |-> reg, trace |-> << >>]

RECURSIVE CountOp(_, _)
CountOp(t, op) ==
    IF t = << >> THEN 0
    ELSE (IF Head(t).op = op THEN 1 ELSE 0) + CountOp(Tail(t), op)

RECURSIVE Filter(_, _)
Filter(t, ops) ==
    IF t = << >> THEN << >>
    ELSE IF Head(t).op \in ops THEN <<Head(t)>> \o Filter(Tail(t), ops)
         ELSE Filter(Tail(t), ops)

(* Index of the first event with this op, 0 when there is none. *)
IndexOf(t, op) ==
    IF \E i \in 1..Len(t) : t[i].op = op
    THEN CHOOSE i \in 1..Len(t) : t[i].op = op /\ \A j \in 1..(i-1) : t[j].op # op
    ELSE 0

(***************************************************************************)
(* The compiled-in model: init sequence, display mode, descriptor.         *)
(***************************************************************************)
e35gh_i_mw800cb_seq ==
    << <<224, <<0, 16, 20, 1, 14, 4, 51, 86, 72, 3, 12, 11, 43, 52, 15>> >>,
       <<225, <<0, 18, 24, 5, 18, 6, 64, 52, 87, 6, 16, 12, 59, 63, 15>> >>,
       <<192, <<15, 12>> >>,
       <<193, <<65>> >>,
       <<197, <<0, 37, 128>> >>,
       <<54,  <<72>> >>,
       <<58,  <<102>> >>,
       <<176, <<0>> >>,
       <<177, <<160>> >>,
       <<180, <<2>> >>,
       <<182, <<2, 2, 59>> >>,
       <<233, <<0>> >>,
       <<247, <<169, 81, 44, 130>> >>,
       <<33,  <<0>> >> >>

e35gh_i_mw800cb_display_mode ==
    [clock       |-> 14256,
     hdisplay    |-> 320,
     hsync_start |-> 320 + 60,
     hsync_end   |-> 320 + 60 + 20,
     htotal      |-> 320 + 60 + 20 + 40,
     vdisplay    |-> 480,
     vsync_start |-> 480 + 20,
     vsync_end   |-> 480 + 20 + 10,
     vtotal      |-> 480 + 20 + 10 + 30,
     width_mm    |-> 48,
     height_mm   |-> 73]

e35gh_i_mw800cb_desc ==
    [init_sequence |-> "e35gh_i_mw800cb_init",
     display_mode  |-> e35gh_i_mw800cb_display_mode,
     lanes         |-> 1]

NoMode == [clock |-> 0, hdisplay |-> 0, hsync_start |-> 0, hsync_end |-> 0,
           htotal |-> 0, vdisplay |-> 0, vsync_start |-> 0, vsync_end |-> 0,
           vtotal |-> 0, width_mm |-> 0, height_mm |-> 0]

(***************************************************************************)
(* Inputs: what the DSI bus answers.  Write number i of a batch (counted   *)
(* by its place in the batch's program text) succeeds before `at`, fails   *)
(* with `err` at `at`, and from then on gets `after`: success (0) or the   *)
(* other error code.                                                       *)
(***************************************************************************)
NoFault == [at |-> 0, err |-> 0, after |-> 0]

BusFaults(n) ==
    {NoFault} \cup {b \in [at : 1..n, err : Errs, after : Rets] : b.after # b.err}

BusRet(bus, i) ==
    IF bus.at = 0 \/ i < bus.at THEN 0
    ELSE IF i = bus.at THEN bus.err
    ELSE bus.after

(***************************************************************************)
(* Power resources: regulator and reset GPIO.                              *)
(***************************************************************************)
regulator_enable(m, r) ==
    Emit([m EXCEPT !.reg = IF r < 0 THEN @ ELSE @ + 1],
         "regulator_enable", r, 0, << >>)

regulator_disable(m, r) ==
    Emit([m EXCEPT !.reg = IF r # 0 THEN @ ELSE @ - 1],
         "regulator_disable", r, 0, << >>)

gpiod_set_value_cansleep(m, v) ==
    Emit([m EXCEPT !.reset = v], "gpiod_set_value", v, 0, << >>)

usleep_range(m, min, max) == Emit(m, "usleep_range", min, max, << >>)

(* Mutant: the reset pulse is driven before the enable result is checked. *)
ili9488_power_on_pulse_unchecked(m, enRet) ==
    LET m0 == Emit(m, "ili9488_power_on", 0, 0, << >>)
        m1 == regulator_enable(m0, enRet)
        m2 == gpiod_set_value_cansleep(m1, 0)
        m3 == usleep_range(m2, 1000, 5000)
        m4 == gpiod_set_value_cansleep(m3, 1)
        m5 == usleep_range(m4, 1000, 5000)
        m6 == gpiod_set_value_cansleep(m5, 0)
        m7 == usleep_range(m6, 5000, 10000)
    IN  [ret |-> IF enRet < 0 THEN enRet ELSE 0,
         m   |-> Emit(m7, "return ili9488_power_on",
                      IF enRet < 0 THEN enRet ELSE 0, 0, << >>)]

(* Mutant: the last deassert is not followed by its 5-10 ms hold. *)
ili9488_power_on_no_final_hold(m, enRet) ==
    LET m0 == Emit(m, "ili9488_power_on", 0, 0, << >>)
        m1 == regulator_enable(m0, enRet)
        m2 == gpiod_set_value_cansleep(m1, 0)
        m3 == usleep_range(m2, 1000, 5000)
        m4 == gpiod_set_value_cansleep(m3, 1)
        m5 == usleep_range(m4, 1000, 5000)
        m6 == gpiod_set_value_cansleep(m5, 0)
    IN  IF enRet < 0
        THEN [ret |-> enRet, m |-> Emit(m1, "return ili9488_power_on", enRet, 0, << >>)]
        ELSE [ret |-> 0, m |-> Emit(m6, "return ili9488_power_on", 0, 0, << >>)]

(* Mutant: the reset pulse ends with the line asserted. *)
ili9488_power_on_ends_in_reset(m, enRet) ==
    LET m0 == Emit(m, "ili9488_power_on", 0, 0, << >>)
        m1 == regulator_enable(m0, enRet)
        m2 == gpiod_set_value_cansleep(m1, 1)
        m3 == usleep_range(m2, 1000, 5000)
        m4 == gpiod_set_value_cansleep(m3, 0)
        m5 == usleep_range(m4, 1000, 5000)
        m6 == gpiod_set_value_cansleep(m5, 1)
        m7 == usleep_range(m6, 5000, 10000)
    IN  IF enRet < 0
        THEN [ret |-> enRet, m |-> Emit(m1, "return ili9488_power_on", enRet, 0, << >>)]
        ELSE [ret |-> 0, m |-> Emit(m7, "return ili9488_power_on", 0, 0, << >>)]

(* ili9488_power_on: returns [ret, m]. *)
ili9488_power_on(m, enRet) ==
    LET m0 == Emit(m, "ili9488_power_on", 0, 0, << >>)
        m1 == regulator_enable(m0, enRet)
        m2 == gpiod_set_value_cansleep(m1, 0)
        m3 == usleep_range(m2, 1000, 5000)
        m4 == gpiod_set_value_cansleep(m3, 1)
        m5 == usleep_range(m4, 1000, 5000)
        m6 == gpiod_set_value_cansleep(m5, 0)
        m7 == usleep_range(m6, 5000, 10000)
    IN  IF enRet < 0
        THEN [ret |-> enRet, m |-> Emit(m1, "return ili9488_power_on", enRet, 0, << >>)]
        ELSE [ret |-> 0, m |-> Emit(m7, "return ili9488_power_on", 0, 0, << >>)]

(* Mutant: the regulator is disabled without asserting reset first. *)
ili9488_power_off_no_reset(m, disRet) ==
    LET m0 == Emit(m, "ili9488_power_off", 0, 0, << >>)
        m2 == regulator_disable(m0, disRet)
    IN  [ret |-> disRet, m |-> Emit(m2, "return ili9488_power_off", disRet, 0, << >>)]

(* Mutant: the regulator is disabled first, reset asserted afterwards. *)
ili9488_power_off_disable_first(m, disRet) ==
    LET m0 == Emit(m, "ili9488_power_off", 0, 0, << >>)
        m1 == regulator_disable(m0, disRet)
        m2 == gpiod_set_value_cansleep(m1, 1)
    IN  [ret |-> disRet, m |-> Emit(m2, "return ili9488_power_off", disRet, 0, << >>)]

(* Mutant: reset is asserted but the regulator is left enabled. *)
ili9488_power_off_keeps_supply(m, disRet) ==
    LET m0 == Emit(m, "ili9488_power_off", 0, 0, << >>)
        m1 == gpiod_set_value_cansleep(m0, 1)
    IN  [ret |-> 0, m |-> Emit(m1, "return ili9488_power_off", 0, 0, << >>)]

(* ili9488_power_off: returns [ret, m]. *)
ili9488_power_off(m, disRet) ==
    LET m0 == Emit(m, "ili9488_power_off", 0, 0, << >>)
        m1 == gpiod_set_value_cansleep(m0, 1)
        m2 == regulator_disable(m1, disRet)
    IN  [ret |-> disRet, m |-> Emit(m2, "return ili9488_power_off", disRet, 0, << >>)]

(***************************************************************************)
(* Command batches: c = [trace, accum_err, n] is the mipi_dsi_multi_context *)
(* together with the calls recorded so far; n counts the _multi write      *)
(* calls the batch has made.                                               *)
(***************************************************************************)
Ctx(t) == [trace |-> t, accum_err |-> 0, n |-> 0]

(* Mutant: a write is issued whatever accum_err holds; the first error is  *)
(* kept.                                                                   *)
dcs_multi_always_issued(c, op, cmd, data, bus) ==
    [trace     |-> Append(c.trace, Ev(op, cmd, BusRet(bus, c.n + 1), data)),
     accum_err |-> IF c.accum_err # 0 THEN c.accum_err
                   ELSE IF BusRet(bus, c.n + 1) < 0 THEN BusRet(bus, c.n + 1)
                   ELSE 0,
     n         |-> c.n + 1]

(* Mutant: a write that fails is sent once more before the error is kept. *)
dcs_multi_retries(c, op, cmd, data, bus) ==
    IF c.accum_err # 0
    THEN [c EXCEPT !.n = @ + 1]
    ELSE IF BusRet(bus, c.n + 1) < 0
    THEN [trace     |-> c.trace \o << Ev(op, cmd, BusRet(bus, c.n + 1), data),
                                      Ev(op, cmd, BusRet(bus, c.n + 1), data) >>,
          accum_err |-> BusRet(bus, c.n + 1),
          n         |-> c.n + 1]
    ELSE [trace     |-> Append(c.trace, Ev(op, cmd, 0, data)),
          accum_err |-> 0,
          n         |-> c.n + 1]

(* One mipi_dsi_dcs_*_multi call: skipped once accum_err is set. *)
dcs_multi(c, op, cmd, data, bus) ==
    IF c.accum_err # 0
    THEN [c EXCEPT !.n = @ + 1]
    ELSE [trace     |-> Append(c.trace, Ev(op, cmd, BusRet(bus, c.n + 1), data)),
          accum_err |-> IF BusRet(bus, c.n + 1) < 0 THEN BusRet(bus, c.n + 1) ELSE 0,
          n         |-> c.n + 1]

(* mipi_dsi_msleep: skipped once accum_err is set. *)
mipi_dsi_msleep(c, ms) ==
    IF c.accum_err # 0 THEN c
    ELSE [c EXCEPT !.trace = Append(@, Ev("msleep", ms, 0, << >>))]

(* The writes seq[k..] of an init sequence, in order. *)
RECURSIVE write_seq(_, _, _, _)
write_seq(c, seq, k, bus) ==
    IF k > Len(seq) THEN c
    ELSE write_seq(dcs_multi(c, "dcs_write_seq", seq[k][1], seq[k][2], bus),
                   seq, k + 1, bus)

e35gh_i_mw800cb_init(c, bus) == write_seq(c, e35gh_i_mw800cb_seq, 1, bus)

(* Mutant: display-on is sent right after exit-sleep, before the wait. *)
ili9488_activate_display_on_early(m, d, bus) ==
    LET c0 == Ctx(Append(m.trace, Ev("ili9488_activate", 0, 0, << >>)))
        c1 == IF d.init_sequence = "e35gh_i_mw800cb_init"
              THEN e35gh_i_mw800cb_init(c0, bus) ELSE c0
        c2 == dcs_multi(c1, "dcs_exit_sleep_mode", 0, << >>, bus)
        c3 == dcs_multi(c2, "dcs_set_display_on", 0, << >>, bus)
        c4 == mipi_dsi_msleep(c3, 120)
    IN  [ret |-> c4.accum_err,
         m   |-> [m EXCEPT !.trace =
                     Append(c4.trace, Ev("return ili9488_activate", c4.accum_err, 0, << >>))]]

(* ili9488_activate: returns [ret, m]. *)
ili9488_activate(m, d, bus) ==
    LET c0 == Ctx(Append(m.trace, Ev("ili9488_activate", 0, 0, << >>)))
        c1 == IF d.init_sequence = "e35gh_i_mw800cb_init"
              THEN e35gh_i_mw800cb_init(c0, bus) ELSE c0
        c2 == dcs_multi(c1, "dcs_exit_sleep_mode", 0, << >>, bus)
        c3 == mipi_dsi_msleep(c2, 120)
        c4 == dcs_multi(c3, "dcs_set_display_on", 0, << >>, bus)
    IN  [ret |-> c4.accum_err,
         m   |-> [m EXCEPT !.trace =
                     Append(c4.trace, Ev("return ili9488_activate", c4.accum_err, 0, << >>))]]

(* ili9488_deactivate: returns [ret, m]. *)
ili9488_deactivate(m, bus) ==
    LET c0 == Ctx(Append(m.trace, Ev("ili9488_deactivate", 0, 0, << >>)))
        c1 == dcs_multi(c0, "dcs_set_display_off", 0, << >>, bus)
        c2 == dcs_multi(c1, "dcs_enter_sleep_mode", 0, << >>, bus)
        c3 == mipi_dsi_msleep(c2, 120)
    IN  [ret |-> c3.accum_err,
         m   |-> [m EXCEPT !.trace =
                     Append(c3.trace, Ev("return ili9488_deactivate", c3.accum_err, 0, << >>))]]

(***************************************************************************)
(* Lifecycle entry points, as functions of the hardware state and the      *)
(* results of the external calls: each returns [ret, m].                   *)
(***************************************************************************)
(* Mutant: on an activate failure the result of power_off is returned. *)
ili9488_prepare_returns_power_off(m, d, enRet, bus, disRet) ==
    LET on  == ili9488_power_on(m, enRet)
        act == ili9488_activate(on.m, d, bus)
        off == ili9488_power_off(act.m, disRet)
    IN  IF on.ret # 0 THEN [ret |-> on.ret, m |-> on.m]
        ELSE IF act.ret # 0 THEN [ret |-> off.ret, m |-> off.m]
        ELSE [ret |-> 0, m |-> act.m]

(* Mutant: an activate failure is returned without powering off. *)
ili9488_prepare_no_rollback(m, d, enRet, bus, disRet) ==
    LET on  == ili9488_power_on(m, enRet)
        act == ili9488_activate(on.m, d, bus)
    IN  IF on.ret # 0 THEN [ret |-> on.ret, m |-> on.m]
        ELSE [ret |-> act.ret, m |-> act.m]

(* Mutant: the result of activate is not looked at. *)
ili9488_prepare_ignores_activate(m, d, enRet, bus, disRet) ==
    LET on  == ili9488_power_on(m, enRet)
        act == ili9488_activate(on.m, d, bus)
    IN  IF on.ret # 0 THEN [ret |-> on.ret, m |-> on.m]
        ELSE [ret |-> 0, m |-> act.m]

ili9488_prepare(m, d, enRet, bus, disRet) ==
    LET on  == ili9488_power_on(m, enRet)
        act == ili9488_activate(on.m, d, bus)
        off == ili9488_power_off(act.m, disRet)
    IN  IF on.ret # 0 THEN [ret |-> on.ret, m |-> on.m]
        ELSE IF act.ret # 0 THEN [ret |-> act.ret, m |-> off.m]
        ELSE [ret |-> 0, m |-> act.m]

(* Mutant: a deactivate error is returned at once, before power_off. *)
ili9488_unprepare_checks_deactivate(m, bus, disRet) ==
    LET de  == ili9488_deactivate(m, bus)
        off == ili9488_power_off(de.m, disRet)
    IN  IF de.ret # 0 THEN [ret |-> de.ret, m |-> de.m]
        ELSE [ret |-> off.ret, m |-> off.m]

(* Mutant: the panel is powered off before the deactivate batch is sent. *)
ili9488_unprepare_power_off_first(m, bus, disRet) ==
    LET off == ili9488_power_off(m, disRet)
        de  == ili9488_deactivate(off.m, bus)
    IN  [ret |-> off.ret, m |-> de.m]

ili9488_unprepare(m, bus, disRet) ==
    LET de  == ili9488_deactivate(m, bus)
        off == ili9488_power_off(de.m, disRet)
    IN  [ret |-> off.ret, m |-> off.m]

(* Mutant: the horizontal total leaves out the back porch. *)
ili9488_get_modes_no_hblank(d) ==
    [d.display_mode EXCEPT !.htotal = d.display_mode.hsync_end]

(* Mutant: the mode is reported only while the panel is prepared. *)
ili9488_get_modes_when_prepared(d) ==
    IF state = "Prepared" THEN d.display_mode ELSE NoMode

ili9488_get_modes(d) == d.display_mode

(* Mutant: the orientation is reported only while the panel is prepared,   *)
(* and as unknown (-1) otherwise.                                          *)
ili9488_get_orientation_when_prepared(o) ==
    IF state = "Prepared" THEN o ELSE -1

ili9488_get_orientation(o) == o

(***************************************************************************)
(* Attach and detach.                                                      *)
(***************************************************************************)
NoDesc == [init_sequence |-> "none", display_mode |-> NoMode, lanes |-> 0]

P(t, op, a) == Append(t, Ev(op, a, 0, << >>))

(* Mutant: the panel is added before the backlight is looked up. *)
ili9488_dsi_probe_adds_early(allocRet, gpioRet, regRet, orRet, orVal, blRet, attRet) ==
    LET t1 == P(<< >>, "devm_drm_panel_alloc", allocRet)
        t2 == P(t1, "devm_gpiod_get", gpioRet)
        t3 == P(t2, "devm_regulator_get", regRet)
        t4 == P(t3, "of_drm_get_panel_orientation", orRet)
        t5 == P(t4, "drm_panel_add", 0)
        t6 == P(t5, "drm_panel_of_backlight", blRet)
        t7 == P(t6, "mipi_dsi_attach", attRet)
        t8 == P(t7, "drm_panel_remove", 0)
        Fail(r, t, rst, rg) == [ret |-> r, trace |-> t, registered |-> rg,
                                attached |-> FALSE, reset |-> rst, orientation |-> -1]
    IN  IF allocRet # 0 THEN Fail(allocRet, t1, -1, FALSE)
        ELSE IF gpioRet # 0 THEN Fail(gpioRet, t2, -1, FALSE)
        ELSE IF regRet # 0 THEN Fail(regRet, t3, 0, FALSE)
        ELSE IF orRet # 0 THEN Fail(orRet, t4, 0, FALSE)
        ELSE IF blRet # 0 THEN Fail(blRet, t6, 0, TRUE)
        ELSE IF attRet < 0 THEN Fail(attRet, t8, 0, FALSE)
        ELSE [ret |-> 0, trace |-> t7, registered |-> TRUE, attached |-> TRUE,
              reset |-> 0, orientation |-> orVal]

(* Mutant: a failed DSI attach leaves the panel in the registry. *)
ili9488_dsi_probe_keeps_panel(allocRet, gpioRet, regRet, orRet, orVal, blRet, attRet) ==
    LET t1 == P(<< >>, "devm_drm_panel_alloc", allocRet)
        t2 == P(t1, "devm_gpiod_get", gpioRet)
        t3 == P(t2, "devm_regulator_get", regRet)
        t4 == P(t3, "of_drm_get_panel_orientation", orRet)
        t5 == P(t4, "drm_panel_of_backlight", blRet)
        t6 == P(t5, "drm_panel_add", 0)
        t7 == P(t6, "mipi_dsi_attach", attRet)
        Fail(r, t, rst, rg) == [ret |-> r, trace |-> t, registered |-> rg,
                                attached |-> FALSE, reset |-> rst, orientation |-> -1]
    IN  IF allocRet # 0 THEN Fail(allocRet, t1, -1, FALSE)
        ELSE IF gpioRet # 0 THEN Fail(gpioRet, t2, -1, FALSE)
        ELSE IF regRet # 0 THEN Fail(regRet, t3, 0, FALSE)
        ELSE IF orRet # 0 THEN Fail(orRet, t4, 0, FALSE)
        ELSE IF blRet # 0 THEN Fail(blRet, t5, 0, FALSE)
        ELSE IF attRet < 0 THEN Fail(attRet, t7, 0, TRUE)
        ELSE [ret |-> 0, trace |-> t7, registered |-> TRUE, attached |-> TRUE,
              reset |-> 0, orientation |-> orVal]

(* ili9488_dsi_probe as a function of what the acquisitions return:        *)
(* [ret, trace, registered, attached, reset, orientation].                 *)
ili9488_dsi_probe(allocRet, gpioRet, regRet, orRet, orVal, blRet, attRet) ==
    LET t1 == P(<< >>, "devm_drm_panel_alloc", allocRet)
        t2 == P(t1, "devm_gpiod_get", gpioRet)
        t3 == P(t2, "devm_regulator_get", regRet)
        t4 == P(t3, "of_drm_get_panel_orientation", orRet)
        t5 == P(t4, "drm_panel_of_backlight", blRet)
        t6 == P(t5, "drm_panel_add", 0)
        t7 == P(t6, "mipi_dsi_attach", attRet)
        t8 == P(t7, "drm_panel_remove", 0)
        Fail(r, t, rst) == [ret |-> r, trace |-> t, registered |-> FALSE,
                            attached |-> FALSE, reset |-> rst, orientation |-> -1]
    IN  IF allocRet # 0 THEN Fail(allocRet, t1, -1)
        ELSE IF gpioRet # 0 THEN Fail(gpioRet, t2, -1)
        ELSE IF regRet # 0 THEN Fail(regRet, t3, 0)
        ELSE IF orRet # 0 THEN Fail(orRet, t4, 0)
        ELSE IF blRet # 0 THEN Fail(blRet, t5, 0)
        ELSE IF attRet < 0 THEN Fail(attRet, t8, 0)
        ELSE [ret |-> 0, trace |-> t7, registered |-> TRUE, attached |-> TRUE,
              reset |-> 0, orientation |-> orVal]

(* ili9488_dsi_remove: [trace, registered, attached]. *)
ili9488_dsi_remove(att, detRet) ==
    [trace      |-> P(P(<< >>, "mipi_dsi_detach", detRet), "drm_panel_remove", 0),
     registered |-> FALSE,
     attached   |-> IF detRet < 0 THEN att ELSE FALSE]

(***************************************************************************)
(* The state machine.                                                      *)
(***************************************************************************)
Init ==
    /\ pc = "unbound"
    /\ registered = FALSE
    /\ attached = FALSE
    /\ desc = NoDesc
    /\ orientation = -1
    /\ reset = -1
    /\ regCount = 0
    /\ state = "Unprepared"
    /\ lastOp = "none"
    /\ lastRet = 0
    /\ trace = << >>
    /\ preReset = -1
    /\ preReg = 0
    /\ modeOut = NoMode
    /\ calls = 0
    /\ nPowerOnOk = 0
    /\ nPowerOff = 0
    /\ nDisableFail = 0

(* The regulator_disable calls of a trace that returned an error. *)
FailedDisables(t) ==
    Cardinality({i \in 1..Len(t) : t[i].op = "regulator_disable" /\ t[i].a # 0})

Probe ==
    /\ pc = "unbound"
    /\ \E allocRet \in Rets, gpioRet \in Rets, regRet \in Rets, orRet \in Rets,
          orVal \in Orientations, blRet \in Rets, attRet \in Rets :
         LET r == ili9488_dsi_probe(allocRet, gpioRet, regRet, orRet, orVal,
                                    blRet, attRet)
         IN  /\ pc' = IF r.ret = 0 THEN "bound" ELSE "probe_failed"
             /\ registered' = r.registered
             /\ attached' = r.attached
             /\ desc' = IF allocRet = 0 THEN e35gh_i_mw800cb_desc ELSE desc
             /\ orientation' = r.orientation
             /\ reset' = r.reset
             /\ lastRet' = r.ret
             /\ trace' = r.trace
    /\ lastOp' = "probe"
    /\ preReset' = reset
    /\ preReg' = regCount
    /\ modeOut' = NoMode
    /\ UNCHANGED <<regCount, state, calls, nPowerOnOk, nPowerOff, nDisableFail>>

Remove ==
    /\ pc = "bound"
    /\ \E detRet \in Rets :
         LET r == ili9488_dsi_remove(attached, detRet)
         IN  /\ registered' = r.registered
             /\ attached' = r.attached
             /\ trace' = r.trace
    /\ pc' = "removed"
    /\ lastOp' = "remove"
    /\ lastRet' = 0
    /\ preReset' = reset
    /\ preReg' = regCount
    /\ modeOut' = NoMode
    /\ UNCHANGED <<desc, orientation, reset, regCount, state, calls,
                   nPowerOnOk, nPowerOff, nDisableFail>>

(* The results of calls prepare never reaches are not enumerated: the bus  *)
(* answers matter only after the regulator came up, regulator_disable's    *)
(* result only when a bus write fails.                                     *)
PrepareBus(enRet) ==
    IF enRet < 0 THEN {NoFault} ELSE BusFaults(Len(e35gh_i_mw800cb_seq) + 2)

PrepareDisable(enRet, bus) ==
    IF enRet < 0 \/ bus = NoFault THEN {0} ELSE Rets

Prepare ==
    /\ pc = "bound"
    /\ state = "Unprepared"
    /\ calls < MaxCalls
    /\ \E enRet \in Rets :
       \E bus \in PrepareBus(enRet) :
       \E disRet \in PrepareDisable(enRet, bus) :
       \E r \in {ili9488_prepare(Hw(reset, regCount), desc, enRet, bus, disRet)} :
             /\ lastRet' = r.ret
             /\ trace' = r.m.trace
             /\ reset' = r.m.reset
             /\ regCount' = r.m.reg
             /\ state' = IF r.ret = 0 THEN "Prepared" ELSE "Unprepared"
             /\ nPowerOnOk' = nPowerOnOk
                   + Cardinality({i \in 1..Len(r.m.trace) :
                         /\ r.m.trace[i].op = "return ili9488_power_on"
                         /\ r.m.trace[i].a = 0})
             /\ nPowerOff' = nPowerOff + CountOp(r.m.trace, "ili9488_power_off")
             /\ nDisableFail' = nDisableFail + FailedDisables(r.m.trace)
    /\ lastOp' = "prepare"
    /\ preReset' = reset
    /\ preReg' = regCount
    /\ calls' = calls + 1
    /\ modeOut' = NoMode
    /\ UNCHANGED <<pc, registered, attached, desc, orientation>>

Unprepare ==
    /\ pc = "bound"
    /\ state = "Prepared"
    /\ calls < MaxCalls
    /\ \E bus \in BusFaults(2), disRet \in Rets :
       \E r \in {ili9488_unprepare(Hw(reset, regCount), bus, disRet)} :
             /\ lastRet' = r.ret
             /\ trace' = r.m.trace
             /\ reset' = r.m.reset
             /\ regCount' = r.m.reg
             /\ nPowerOff' = nPowerOff + CountOp(r.m.trace, "ili9488_power_off")
             /\ nDisableFail' = nDisableFail + FailedDisables(r.m.trace)
    /\ state' = "Unprepared"
    /\ lastOp' = "unprepare"
    /\ preReset' = reset
    /\ preReg' = regCount
    /\ calls' = calls + 1
    /\ modeOut' = NoMode
    /\ UNCHANGED <<pc, registered, attached, desc, orientation, nPowerOnOk>>

GetModes ==
    /\ pc = "bound"
    /\ modeOut' = ili9488_get_modes(desc)
    /\ lastOp' = "get_modes"
    /\ lastRet' = 1
    /\ trace' = << >>
    /\ preReset' = reset
    /\ preReg' = regCount
    /\ UNCHANGED <<pc, registered, attached, desc, orientation, reset, regCount,
                   state, calls, nPowerOnOk, nPowerOff, nDisableFail>>

GetOrientation ==
    /\ pc = "bound"
    /\ lastOp' = "get_orientation"
    /\ lastRet' = ili9488_get_orientation(orientation)
    /\ trace' = << >>
    /\ preReset' = reset
    /\ preReg' = regCount
    /\ modeOut' = NoMode
    /\ UNCHANGED <<pc, registered, attached, desc, orientation, reset, regCount,
                   state, calls, nPowerOnOk, nPowerOff, nDisableFail>>

Next ==
    \/ Probe
    \/ Remove
    \/ Prepare
    \/ Unprepare
    \/ GetModes
    \/ GetOrientation

Spec == Init /\ [][Next]_vars

(***************************************************************************)
(* Reading a trace.                                                        *)
(***************************************************************************)
BusOps == {"dcs_write_seq", "dcs_exit_sleep_mode", "dcs_set_display_on",
           "dcs_set_display_off", "dcs_enter_sleep_mode"}

DelayOps == {"usleep_range", "msleep"}

Has(t, op) == \E i \in 1..Len(t) : t[i].op = op

(* The first event with this op (the trace must hold one). *)
EvOf(t, op) == t[IndexOf(t, op)]

(* The bus writes of the trace's batch, and those of them that failed. *)
BusEvents(t) == Filter(t, BusOps)

FailedWrites(t) == {i \in 1..Len(BusEvents(t)) : BusEvents(t)[i].b < 0}

EnableFailed == /\ lastOp = "prepare"
                /\ Has(trace, "regulator_enable")
                /\ EvOf(trace, "regulator_enable").a < 0

EnableOk == /\ lastOp = "prepare"
            /\ Has(trace, "regulator_enable")
            /\ EvOf(trace, "regulator_enable").a = 0

(***************************************************************************)
(* C1: when regulator_enable fails in power_on, prepare returns that       *)
(* error, makes no reset-line call, no bus write and no delay, does not    *)
(* call power_off, and the panel stays Unprepared.                         *)
(***************************************************************************)
C1_EnableFailureAborts ==
    EnableFailed =>
        /\ lastRet = EvOf(trace, "regulator_enable").a
        /\ CountOp(trace, "gpiod_set_value") = 0
        /\ Filter(trace, BusOps \cup DelayOps) = << >>
        /\ CountOp(trace, "ili9488_power_off") = 0
        /\ CountOp(trace, "regulator_disable") = 0
        /\ reset = preReset
        /\ state = "Unprepared"

C1_Witness ==
    /\ EnableFailed
    /\ lastRet = -110
    /\ calls = 1

(***************************************************************************)
(* C2: when power_on succeeded and a write of activate failed, activate    *)
(* returns an error, prepare calls power_off exactly once and returns      *)
(* activate's error, not power_off's result, and the panel stays           *)
(* Unprepared.                                                             *)
(***************************************************************************)
C2_ActivateFailureRollsBack ==
    (EnableOk /\ FailedWrites(trace) # {}) =>
        /\ Has(trace, "return ili9488_activate")
        /\ EvOf(trace, "return ili9488_activate").a < 0
        /\ lastRet = EvOf(trace, "return ili9488_activate").a
        /\ CountOp(trace, "ili9488_power_off") = 1
        /\ CountOp(trace, "regulator_disable") = 1
        /\ IndexOf(trace, "ili9488_power_off") > IndexOf(trace, "return ili9488_activate")
        /\ state = "Unprepared"

(* Exit-sleep succeeded, only display-on failed, and the regulator disable *)
(* failed too, with another error.                                         *)
C2_Witness ==
    /\ EnableOk
    /\ Has(trace, "dcs_exit_sleep_mode")
    /\ EvOf(trace, "dcs_exit_sleep_mode").b = 0
    /\ Has(trace, "dcs_set_display_on")
    /\ EvOf(trace, "dcs_set_display_on").b = -5
    /\ Has(trace, "regulator_disable")
    /\ EvOf(trace, "regulator_disable").a = -110
    /\ lastRet = -5

(***************************************************************************)
(* C3: every unprepare calls power_off exactly once, whatever deactivate's *)
(* writes did; it returns power_off's result, never deactivate's error;    *)
(* the panel is Unprepared afterwards, also when power_off failed.         *)
(***************************************************************************)
C3_UnprepareAlwaysPowersOff ==
    lastOp = "unprepare" =>
        /\ CountOp(trace, "ili9488_power_off") = 1
        /\ CountOp(trace, "regulator_disable") = 1
        /\ Has(trace, "return ili9488_power_off")
        /\ lastRet = EvOf(trace, "return ili9488_power_off").a
        /\ lastRet = EvOf(trace, "regulator_disable").a
        /\ state = "Unprepared"

(* Deactivate failed and power_off succeeded: unprepare returns 0. *)
C3_Witness ==
    /\ lastOp = "unprepare"
    /\ Has(trace, "return ili9488_deactivate")
    /\ EvOf(trace, "return ili9488_deactivate").a = -5
    /\ lastRet = 0
    /\ state = "Unprepared"

(***************************************************************************)
(* C4: between transitions, the power_on calls that succeeded and the      *)
(* power_off calls are balanced: equal while the panel is Unprepared, one  *)
(* more power_on while it is Prepared; an unprepare always leaves the      *)
(* panel Unprepared.                                                       *)
(***************************************************************************)
C4_PowerOnMatchedByPowerOff ==
    /\ state = "Unprepared" => nPowerOnOk = nPowerOff
    /\ state = "Prepared" => nPowerOnOk = nPowerOff + 1
    /\ lastOp = "unprepare" => state = "Unprepared"

(* A failed prepare (rolled back), then prepare and unprepare. *)
C4_Witness ==
    /\ lastOp = "unprepare"
    /\ state = "Unprepared"
    /\ calls = 3
    /\ nPowerOnOk = 2
    /\ nPowerOff = 2

(***************************************************************************)
(* C5 as stated: get_modes returns htotal = 420 and vtotal = 540.          *)
(***************************************************************************)
C5_Original ==
    lastOp = "get_modes" => (modeOut.htotal = 420 /\ modeOut.vtotal = 540)

(***************************************************************************)
(* C5 amended: get_modes returns htotal = 440 and vtotal = 540 for the     *)
(* 14256 kHz, 320x480 mode, each the sum of the display size, the          *)
(* sync-start offset, the sync-end offset and the blank offset             *)
(* (320 + 60 + 20 + 40 and 480 + 20 + 10 + 30).                            *)
(***************************************************************************)
C5_Totals ==
    lastOp = "get_modes" =>
        /\ modeOut.clock = 14256
        /\ modeOut.hdisplay = 320
        /\ modeOut.vdisplay = 480
        /\ modeOut.htotal = 440
        /\ modeOut.vtotal = 540
        /\ modeOut.htotal = modeOut.hdisplay
                            + (modeOut.hsync_start - modeOut.hdisplay)
                            + (modeOut.hsync_end - modeOut.hsync_start) + 40
        /\ modeOut.vtotal = modeOut.vdisplay
                            + (modeOut.vsync_start - modeOut.vdisplay)
                            + (modeOut.vsync_end - modeOut.vsync_start) + 30

C5_Witness ==
    /\ lastOp = "get_modes"
    /\ lastRet = 1
    /\ modeOut.htotal = 440
    /\ state = "Prepared"

(***************************************************************************)
(* The batch of a trace: its bus writes and its 120 ms waits, in order.    *)
(***************************************************************************)
BatchEvents(t) == Filter(t, BusOps \cup {"msleep"})

(* What the batch returned. *)
BatchRet(t) ==
    IF Has(t, "return ili9488_activate")
    THEN EvOf(t, "return ili9488_activate").a
    ELSE EvOf(t, "return ili9488_deactivate").a

(* How many writes the batch's program text holds. *)
BatchWrites(t) ==
    IF Has(t, "ili9488_activate") THEN Len(e35gh_i_mw800cb_seq) + 2 ELSE 2

InBatch(t) == Has(t, "ili9488_activate") \/ Has(t, "ili9488_deactivate")

(* The error of the first failing write among the issued ones, 0 if none. *)
FirstError(t) ==
    IF FailedWrites(t) = {} THEN 0
    ELSE BusEvents(t)[CHOOSE i \in FailedWrites(t) :
                          \A j \in FailedWrites(t) : i <= j].b

ResetPulse ==
    << Ev("ili9488_power_on", 0, 0, << >>),
       Ev("regulator_enable", 0, 0, << >>),
       Ev("gpiod_set_value", 0, 0, << >>),
       Ev("usleep_range", 1000, 5000, << >>),
       Ev("gpiod_set_value", 1, 0, << >>),
       Ev("usleep_range", 1000, 5000, << >>),
       Ev("gpiod_set_value", 0, 0, << >>),
       Ev("usleep_range", 5000, 10000, << >>),
       Ev("return ili9488_power_on", 0, 0, << >>) >>

C7_ResetPulse ==
    /\ Has(trace, "regulator_enable") => lastOp = "prepare"
    /\ EnableOk =>
          /\ Len(trace) >= Len(ResetPulse)
          /\ SubSeq(trace, 1, Len(ResetPulse)) = ResetPulse
          /\ CountOp(trace, "usleep_range") = 3
          /\ CountOp(trace, "regulator_enable") = 1
          /\ \A i \in 1..Len(trace) :
                trace[i].op = "usleep_range" =>
                    /\ trace[i].a <= trace[i].b
                    /\ trace[i].a >= 1000

C7_Witness ==
    /\ EnableOk
    /\ lastRet = 0
    /\ state = "Prepared"
    /\ reset = 0

(***************************************************************************)
(* C8: every get_modes returns the one display mode of the descriptor      *)
(* matched at probe, whatever transitions and get_modes calls came before, *)
(* and a get_modes call changes neither the lifecycle state nor the        *)
(* regulator, the reset line or the descriptor, and makes no bus, GPIO or  *)
(* regulator call.                                                         *)
(***************************************************************************)
C8_GetModesFixed ==
    /\ [](lastOp = "get_modes" =>
            /\ modeOut = e35gh_i_mw800cb_display_mode
            /\ modeOut = desc.display_mode
            /\ lastRet = 1)
    /\ [][lastOp' = "get_modes" =>
            /\ state' = state
            /\ reset' = reset
            /\ regCount' = regCount
            /\ desc' = desc
            /\ orientation' = orientation
            /\ nPowerOnOk' = nPowerOnOk
            /\ nPowerOff' = nPowerOff
            /\ trace' = << >>]_vars

(* get_modes after a failed prepare, a prepare and an unprepare. *)
C8_Witness ==
    /\ lastOp = "get_modes"
    /\ modeOut = e35gh_i_mw800cb_display_mode
    /\ calls = 3
    /\ state = "Unprepared"
    /\ nPowerOff = 2

(***************************************************************************)
(* C9 as stated: after a prepare that returned an error, the regulator's   *)
(* enable state and the reset line's level are what they were before the   *)
(* call.                                                                   *)
(***************************************************************************)
C9_Original ==
    (lastOp = "prepare" /\ lastRet # 0) =>
        (regCount = preReg /\ reset = preReset)

(***************************************************************************)
(* C9 amended: after a prepare that returned power_on's error, the         *)
(* regulator's enable state and the reset line's level are what they were  *)
(* before the call.  After a prepare that returned activate's error,       *)
(* power_off has run: the reset line is asserted (1) whatever its level    *)
(* was before; the regulator's enable state is what it was before the call *)
(* when regulator_disable succeeded, and one enable is left held when it   *)
(* failed.                                                                 *)
(***************************************************************************)
C9_FailedPrepareRollback ==
    (lastOp = "prepare" /\ lastRet # 0) =>
        /\ EnableFailed => (regCount = preReg /\ reset = preReset)
        /\ EnableOk =>
              /\ reset = 1
              /\ Has(trace, "regulator_disable")
              /\ EvOf(trace, "regulator_disable").a = 0 => regCount = preReg
              /\ EvOf(trace, "regulator_disable").a # 0 => regCount = preReg + 1

(* The first prepare after probe fails in activate: reset goes from 0 to 1. *)
C9_Witness ==
    /\ lastOp = "prepare"
    /\ lastRet # 0
    /\ EnableOk
    /\ preReset = 0
    /\ reset = 1
    /\ regCount = preReg

(***************************************************************************)
(* C10: when probe fails on acquiring the reset line, the regulator, the   *)
(* orientation or the backlight, it returns that error, never calls        *)
(* drm_panel_add and never attempts the DSI attach.                        *)
(***************************************************************************)
AcquireOps == {"devm_gpiod_get", "devm_regulator_get",
               "of_drm_get_panel_orientation", "drm_panel_of_backlight"}

AcquireFailed ==
    /\ lastOp = "probe"
    /\ \E i \in 1..Len(trace) : trace[i].op \in AcquireOps /\ trace[i].a # 0

C10_AcquireFailureAbortsProbe ==
    AcquireFailed =>
        /\ \A i \in 1..Len(trace) :
              (trace[i].op \in AcquireOps /\ trace[i].a # 0) => lastRet = trace[i].a
        /\ lastRet # 0
        /\ CountOp(trace, "drm_panel_add") = 0
        /\ CountOp(trace, "mipi_dsi_attach") = 0
        /\ registered = FALSE
        /\ attached = FALSE
        /\ pc = "probe_failed"

(* The last acquisition, the backlight, fails. *)
C10_Witness ==
    /\ lastOp = "probe"
    /\ Has(trace, "drm_panel_of_backlight")
    /\ EvOf(trace, "drm_panel_of_backlight").a = -5
    /\ lastRet = -5
    /\ pc = "probe_failed"


(***************************************************************************)
(* C11: nothing is retried.  In one prepare the regulator is enabled at    *)
(* most once and each command of the activate batch is issued at most      *)
(* once; in one unprepare display-off and enter-sleep are each issued at   *)
(* most once and the regulator is disabled at most once; a step that       *)
(* failed is not attempted again in the same transition.                   *)
(***************************************************************************)
(* No two bus writes of the trace carry the same command. *)
NoRepeatedWrite(t) ==
    \A i, j \in 1..Len(BusEvents(t)) :
        (/\ BusEvents(t)[i].op = BusEvents(t)[j].op
         /\ BusEvents(t)[i].a = BusEvents(t)[j].a) => i = j

C11_NothingRetried ==
    /\ lastOp = "prepare" =>
          /\ CountOp(trace, "regulator_enable") = 1
          /\ CountOp(trace, "ili9488_power_on") = 1
          /\ CountOp(trace, "ili9488_activate") <= 1
          /\ CountOp(trace, "regulator_disable") <= 1
          /\ NoRepeatedWrite(trace)
          /\ EnableFailed => Len(trace) = 3
    /\ lastOp = "unprepare" =>
          /\ CountOp(trace, "dcs_set_display_off") = 1
          /\ CountOp(trace, "dcs_enter_sleep_mode") <= 1
          /\ CountOp(trace, "ili9488_deactivate") = 1
          /\ CountOp(trace, "regulator_disable") = 1
          /\ CountOp(trace, "regulator_enable") = 0
          /\ NoRepeatedWrite(trace)

(* A prepare in which a write failed and then the regulator disable failed. *)
C11_Witness ==
    /\ lastOp = "prepare"
    /\ FailedWrites(trace) # {}
    /\ Has(trace, "regulator_disable")
    /\ EvOf(trace, "regulator_disable").a = -5
    /\ CountOp(trace, "regulator_disable") = 1


(***************************************************************************)
(* The command stream of a trace's batch: each write or wait as <<op, a>>  *)
(* (a: the command byte of an init write, the milliseconds of a wait).     *)
(***************************************************************************)
Stream(t) == [i \in 1..Len(BatchEvents(t)) |->
                 <<BatchEvents(t)[i].op, BatchEvents(t)[i].a>>]

(* E0, E1, C0, C1, C5, 36, 3A, B0, B1, B4, B6, E9, F7, 21, exit-sleep,     *)
(* wait 120 ms, display-on.                                                *)
ActivateStream ==
    << <<"dcs_write_seq", 224>>, <<"dcs_write_seq", 225>>,
       <<"dcs_write_seq", 192>>, <<"dcs_write_seq", 193>>,
       <<"dcs_write_seq", 197>>, <<"dcs_write_seq", 54>>,
       <<"dcs_write_seq", 58>>,  <<"dcs_write_seq", 176>>,
       <<"dcs_write_seq", 177>>, <<"dcs_write_seq", 180>>,
       <<"dcs_write_seq", 182>>, <<"dcs_write_seq", 233>>,
       <<"dcs_write_seq", 247>>, <<"dcs_write_seq", 33>>,
       <<"dcs_exit_sleep_mode", 0>>, <<"msleep", 120>>,
       <<"dcs_set_display_on", 0>> >>

IsPrefix(s, t) == Len(s) <= Len(t) /\ SubSeq(t, 1, Len(s)) = s

StepOps == BusOps \cup {"msleep", "gpiod_set_value", "regulator_disable"}

Steps(t) == [i \in 1..Len(Filter(t, StepOps)) |->
                <<Filter(t, StepOps)[i].op,
                  IF Filter(t, StepOps)[i].op \in {"msleep", "gpiod_set_value"}
                  THEN Filter(t, StepOps)[i].a ELSE 0>>]

DeactivateStream ==
    << <<"dcs_set_display_off", 0>>, <<"dcs_enter_sleep_mode", 0>>,
       <<"msleep", 120>> >>

PowerOffSteps == << <<"gpiod_set_value", 1>>, <<"regulator_disable", 0>> >>

PowerOffAt == IndexOf(trace, "ili9488_power_off")

C14_PowerOffOrder ==
    Has(trace, "ili9488_power_off") =>
        /\ CountOp(trace, "ili9488_power_off") = 1
        /\ Len(trace) = PowerOffAt + 3
        /\ trace[PowerOffAt + 1] = Ev("gpiod_set_value", 1, 0, << >>)
        /\ trace[PowerOffAt + 2].op = "regulator_disable"
        /\ trace[PowerOffAt + 3] =
              Ev("return ili9488_power_off", trace[PowerOffAt + 2].a, 0, << >>)
        /\ CountOp(trace, "regulator_disable") = 1
        /\ reset = 1
        /\ \A i \in PowerOffAt..Len(trace) : trace[i].op # "regulator_enable"
        /\ trace[PowerOffAt + 2].a # 0 =>
              /\ lastOp = "unprepare" => lastRet = trace[PowerOffAt + 2].a
              /\ regCount = preReg + (IF lastOp = "prepare" THEN 1 ELSE 0)
              /\ regCount >= 1

(* An unprepare whose regulator disable fails. *)
C14_Witness ==
    /\ lastOp = "unprepare"
    /\ Has(trace, "regulator_disable")
    /\ EvOf(trace, "regulator_disable").a = -5
    /\ lastRet = -5
    /\ reset = 1
    /\ regCount = 1


(***************************************************************************)
(* C15: prepare returns 0, and the panel becomes Prepared, exactly when    *)
(* the regulator enable succeeded and no write of the activate batch       *)
(* failed; a successful prepare does not call power_off.                   *)
(***************************************************************************)
C15_PrepareSucceedsIff ==
    lastOp = "prepare" =>
        /\ (lastRet = 0) <=>
              (EnableOk /\ Has(trace, "ili9488_activate") /\ FailedWrites(trace) = {})
        /\ (state = "Prepared") <=> (lastRet = 0)
        /\ lastRet = 0 =>
              /\ CountOp(trace, "ili9488_power_off") = 0
              /\ CountOp(trace, "regulator_disable") = 0
              /\ Len(BusEvents(trace)) = Len(e35gh_i_mw800cb_seq) + 2
              /\ regCount = preReg + 1
              /\ reset = 0

(* A second prepare that succeeds after a first one failed in activate. *)
C15_Witness ==
    /\ lastOp = "prepare"
    /\ lastRet = 0
    /\ state = "Prepared"
    /\ calls = 2
    /\ nPowerOff = 1
    /\ FailedWrites(trace) = {}


(***************************************************************************)
(* C16: once probe has succeeded, no entry point changes the descriptor    *)
(* or the orientation resolved at probe, and every get_orientation         *)
(* returns that orientation, whatever transitions came before and however  *)
(* they ended.                                                             *)
(***************************************************************************)
C16_OrientationFixed ==
    /\ [](lastOp = "get_orientation" => lastRet = orientation)
    /\ [](pc = "bound" => (desc = e35gh_i_mw800cb_desc /\ orientation \in Orientations))
    /\ [][pc = "bound" => (orientation' = orientation /\ desc' = desc)]_vars

(* get_orientation after three transitions, on a panel mounted bottom-up. *)
C16_Witness ==
    /\ lastOp = "get_orientation"
    /\ lastRet = 1
    /\ orientation = 1
    /\ calls = 3
    /\ state = "Unprepared"


(***************************************************************************)
(* The reset level and the regulator's enable count just before event i of *)
(* a trace that started with the level r0 and the count g0.                *)
(***************************************************************************)
ResetAt(t, i, r0) ==
    IF \E j \in 1..(i - 1) : t[j].op = "gpiod_set_value"
    THEN t[CHOOSE j \in 1..(i - 1) :
              /\ t[j].op = "gpiod_set_value"
              /\ \A k \in (j + 1)..(i - 1) : t[k].op # "gpiod_set_value"].a
    ELSE r0

RegAt(t, i, g0) ==
    g0 + Cardinality({j \in 1..(i - 1) : t[j].op = "regulator_enable" /\ t[j].a = 0})
       - Cardinality({j \in 1..(i - 1) : t[j].op = "regulator_disable" /\ t[j].a = 0})

(***************************************************************************)
(* C17: every command write of a prepare or an unprepare reaches the bus   *)
(* while this panel holds an enable on the regulator and the reset line is *)
(* deasserted: never while the panel is held in reset, never after the     *)
(* regulator was disabled.                                                 *)
(***************************************************************************)
C17_WritesWhilePowered ==
    \A i \in 1..Len(trace) :
        trace[i].op \in BusOps =>
            /\ lastOp \in {"prepare", "unprepare"}
            /\ ResetAt(trace, i, preReset) = 0
            /\ RegAt(trace, i, preReg) >= 1
            /\ \A j \in 1..(i - 1) : trace[j].op # "regulator_disable"

(* An unprepare sends both its writes to a powered panel out of reset. *)
C17_Witness ==
    /\ lastOp = "unprepare"
    /\ Len(BusEvents(trace)) = 2
    /\ preReset = 0
    /\ preReg = 1
    /\ ResetAt(trace, IndexOf(trace, "dcs_enter_sleep_mode"), preReset) = 0


(***************************************************************************)
(* C18 as stated: the panel's net regulator enable count (successful       *)
(* enables minus successful disables) is 0 while it is Unprepared and 1    *)
(* while it is Prepared, whatever failed before.                           *)
(***************************************************************************)
C18_Original ==
    /\ state = "Unprepared" => regCount = 0
    /\ state = "Prepared" => regCount = 1

(***************************************************************************)
(* C18 amended: the net regulator enable count is never below 0; while the *)
(* panel is Unprepared it equals the number of regulator_disable calls     *)
(* that failed so far, and while it is Prepared it is one more.  It is 0   *)
(* (Unprepared) and 1 (Prepared) as long as no regulator_disable has       *)
(* failed, and exceeds 1 only after one has.                               *)
(***************************************************************************)
C18_NetEnableCount ==
    /\ regCount >= 0
    /\ state = "Unprepared" => regCount = nDisableFail
    /\ state = "Prepared" => regCount = nDisableFail + 1
    /\ nDisableFail = 0 => regCount <= 1

(* Prepared again after an unprepare whose regulator disable failed. *)
C18_Witness ==
    /\ state = "Prepared"
    /\ lastOp = "prepare"
    /\ regCount = 2
    /\ nDisableFail = 1
    /\ nPowerOff = 1


(* The DSI attach of the last probe failed. *)
AttachFailed ==
    /\ lastOp = "probe"
    /\ Has(trace, "mipi_dsi_attach")
    /\ EvOf(trace, "mipi_dsi_attach").a < 0

(***************************************************************************)
(* C19: when probe returns, the panel is in the registry iff probe         *)
(* returned 0.  If the DSI attach fails after drm_panel_add, the panel is  *)
(* removed again (drm_panel_remove is probe's last call) and probe returns *)
(* the attach error.  remove() calls mipi_dsi_detach and then              *)
(* drm_panel_remove, also when the detach failed.                          *)
(***************************************************************************)
C19_RegisteredIffProbeOk ==
    /\ lastOp = "probe" =>
          /\ registered <=> lastRet = 0
          /\ registered <=>
                CountOp(trace, "drm_panel_add")
                   = CountOp(trace, "drm_panel_remove") + 1
          /\ ~registered =>
                CountOp(trace, "drm_panel_add") = CountOp(trace, "drm_panel_remove")
    /\ AttachFailed =>
          /\ IndexOf(trace, "drm_panel_add") > 0
          /\ IndexOf(trace, "drm_panel_add") < IndexOf(trace, "mipi_dsi_attach")
          /\ IndexOf(trace, "drm_panel_remove") = Len(trace)
          /\ IndexOf(trace, "mipi_dsi_attach") = Len(trace) - 1
          /\ lastRet = EvOf(trace, "mipi_dsi_attach").a
          /\ ~registered
          /\ ~attached
    /\ lastOp = "remove" =>
          /\ Len(trace) = 2
          /\ trace[1].op = "mipi_dsi_detach"
          /\ trace[2].op = "drm_panel_remove"
          /\ ~registered
          /\ trace[1].a = 0 => ~attached

(* A probe whose DSI attach failed after the panel had been added. *)
C19_Witness ==
    /\ AttachFailed
    /\ lastRet = -5
    /\ CountOp(trace, "drm_panel_add") = 1
    /\ CountOp(trace, "drm_panel_remove") = 1
    /\ ~registered

====
